---- MODULE Spec2Model ----
(***************************************************************************)
(* A model of analysis_toolkit.py: the portfolio arithmetic                *)
(* (portfolio_return, portfolio_vol), the constrained optimisations        *)
(* (minimize_vol, msr, gmv, optimal_weights) and drawdown.                 *)
(*                                                                         *)
(* Numbers are exact.  A real is a rational [num, den] with den > 0; an    *)
(* array of weights is [num |-> <<k1, ..., kn>>, den |-> q], entry i being *)
(* ki / q, and den = 0 marks an array of NaN.  The value of a square root  *)
(* or of a quotient by one is a "float": NaN, +inf, -inf, or               *)
(* sign * sqrt(rad) with rad a rational >= 0, so that floats are compared  *)
(* exactly and np.sqrt of a negative number is NaN, as in numpy.           *)
(***************************************************************************)
EXTENDS Integers, Sequences, FiniteSets, TLC

VARIABLES in_er, in_cov, out, par, rs, dd

vars == <<in_er, in_cov, out, par, rs, dd>>

(***************************************************************************)
(* Bounds of the model.                                                    *)
(***************************************************************************)
\* n_points of a sweep ranges over 0..MaxPoints
MaxPoints == 3
\* msr's solver model resolves weights to 1/(2 * Resolution)
Resolution == 2
\* direct calls of minimize_vol take targets k/TargetDen
TargetDen == 2
\* malformed shapes: vector lengths and matrix sides in 1..MaxDim
MaxDim == 3
\* return series of drawdown have length 1..MaxLen
MaxLen == 4

\* the sets the inputs are drawn from
Sizes == {2, 3}
Returns == {-1, 0, 1}
Variances == {0, 1, 2}
Covariances == {-1, 0, 1}
RiskFree == {-1, 0}

None == [kind |-> "none"]

(***************************************************************************)
(* Exact arithmetic.                                                       *)
(***************************************************************************)
Abs(x) == IF x < 0 THEN -x ELSE x

Sign(x) == IF x < 0 THEN -1 ELSE IF x = 0 THEN 0 ELSE 1

Rat(n, d) == [num |-> n, den |-> d]

RLess(a, b) == a.num * b.den < b.num * a.den

REq(a, b) == a.num * b.den = b.num * a.den

RLeq(a, b) == a.num * b.den <= b.num * a.den

RSub(a, b) == Rat(a.num * b.den - b.num * a.den, a.den * b.den)

RMul(a, b) == Rat(a.num * b.num, a.den * b.den)

RECURSIVE SumTo(_, _)
\* f[1] + ... + f[k]
SumTo(f, k) == IF k = 0 THEN 0 ELSE SumTo(f, k - 1) + f[k]

\* floats: NaN, +-inf, sign * sqrt(rad)
NaN == [kind |-> "nan", sign |-> 0, rad |-> Rat(0, 1)]

Inf(s) == [kind |-> "inf", sign |-> s, rad |-> Rat(0, 1)]

Root(s, r) == [kind |-> "root", sign |-> s, rad |-> r]

IsNaN(f) == f.kind = "nan"

IsFinite(f) == f.kind = "root"

\* a < b on floats; false when either is NaN, as every IEEE comparison is
FLess(a, b) ==
    CASE IsNaN(a) \/ IsNaN(b) -> FALSE
      [] a.kind = "inf" /\ b.kind = "inf" -> a.sign < b.sign
      [] a.kind = "inf" -> a.sign < 0
      [] b.kind = "inf" -> b.sign > 0
      [] OTHER -> RLess(Rat(a.sign * a.rad.num, a.rad.den),
                        Rat(b.sign * b.rad.num, b.rad.den))

\* a >= 0 on floats
FNonNeg(a) == ~IsNaN(a) /\ a.sign >= 0

\* np.sqrt of a rational: NaN (and a RuntimeWarning, no exception) below 0
NpSqrt(q) == IF q.num < 0 THEN NaN ELSE Root(Sign(q.num), Rat(q.num, q.den))

\* -(x / v) for a rational x and a float v >= 0 or NaN, in IEEE arithmetic:
\* x/0 is +-inf, 0/0 is NaN
NegQuotient(x, v) ==
    CASE IsNaN(v) -> NaN
      [] v.sign = 0 -> IF x.num = 0 THEN NaN ELSE Inf(-Sign(x.num))
      [] OTHER -> Root(-Sign(x.num),
                       Rat(x.num * x.num * v.rad.den, x.den * x.den * v.rad.num))

(***************************************************************************)
(* numpy's matmul on 1-D and 2-D operands.  A mismatch of the core         *)
(* dimensions raises ValueError, which the callers below do not catch.     *)
(***************************************************************************)
ValueError == [kind |-> "ValueError"]

Raised(v) == v = ValueError

\* a @ b for two vectors of one length
VecVec(a, b) == SumTo([i \in 1..Len(a) |-> a[i] * b[i]], Len(a))

\* a @ M for a vector and a matrix (a sequence of Len(a) rows of one length)
VecMat(a, M) ==
    [j \in 1..Len(M[1]) |-> SumTo([i \in 1..Len(a) |-> a[i] * M[i][j]], Len(a))]

\* the arrays of n weights
Arrays(n) == [num : [1..n -> Int], den : Nat]

NaNArray(n) == [num |-> [i \in 1..n |-> 0], den |-> 0]

IsNaNArray(w) == w.den = 0

\* np.sum(weights)
NpSum(w) == Rat(SumTo(w.num, Len(w.num)), w.den)

\* weights.T @ returns
portfolio_return(weights, returns) ==
    IF Len(weights.num) # Len(returns) THEN ValueError
    ELSE Rat(VecVec(weights.num, returns), weights.den)

\* A variant that raises a domain error where np.sqrt returns NaN.
portfolio_vol_raising(weights, covmat) ==
    IF Len(weights.num) # Len(covmat) \/ Len(covmat[1]) # Len(weights.num)
    THEN ValueError
    ELSE IF VecVec(VecMat(weights.num, covmat), weights.num) < 0 THEN ValueError
    ELSE NpSqrt(Rat(VecVec(VecMat(weights.num, covmat), weights.num),
                    weights.den * weights.den))

\* np.sqrt(weights.T @ covmat @ weights)
portfolio_vol(weights, covmat) ==
    IF Len(weights.num) # Len(covmat) \/ Len(covmat[1]) # Len(weights.num)
    THEN ValueError
    ELSE IF IsNaNArray(weights) THEN NaN
    ELSE NpSqrt(Rat(VecVec(VecMat(weights.num, covmat), weights.num),
                    weights.den * weights.den))

(***************************************************************************)
(* scipy.optimize.minimize(fun, x0, method='SLSQP', bounds, constraints),  *)
(* by its contract.  fun and each constraint are functions on arrays; an   *)
(* equality constraint holds where its function is 0.  The candidates are  *)
(* the arrays within the bounds whose entries are multiples of 1/res.      *)
(*                                                                         *)
(* fun is evaluated at x0 first, and an exception it raises propagates.    *)
(* Where the problem is well posed (some candidate satisfies the           *)
(* constraints, fun is finite at x0 and is NaN at no such candidate) the   *)
(* result's x is the constrained minimiser, the one nearest x0 when        *)
(* several candidates attain the minimum.  Otherwise the solver reports    *)
(* failure in a field the callers never read, and x is whatever iterate    *)
(* it stopped at: x0, a corner of the box, or NaN.  The value is the set   *)
(* of the ways the call can end.                                           *)
(***************************************************************************)
\* how a call ends: it raises ValueError or returns x, having entered the
\* solver `calls` times
Raise(calls) == [raised |-> TRUE, x |-> None, calls |-> calls]

Return(v, calls) == [raised |-> FALSE, x |-> v, calls |-> calls]

LexLeq(a, b) ==
    \/ a = b
    \/ \E i \in 1..Len(a) : a[i] < b[i] /\ \A j \in 1..(i - 1) : a[j] = b[j]

\* the squared distance of x to x0, times (x.den * x0.den)^2
Dist(x, x0) ==
    SumTo([i \in 1..Len(x.num) |->
             (x.num[i] * x0.den - x0.num[i] * x.den)
             * (x.num[i] * x0.den - x0.num[i] * x.den)], Len(x.num))

LastIterates(x0) ==
    LET n == Len(x0.num)
    IN  {x0, NaNArray(n)} \cup {[num |-> v, den |-> 1] : v \in [1..n -> {0, 1}]}

minimize(fun, x0, bounds, constraints, res) ==
    LET n == Len(x0.num)
        Box == {[num |-> v, den |-> res] :
                  v \in {u \in [1..n -> 0..res] :
                           \A i \in 1..n : /\ bounds[i][1] * res <= u[i]
                                           /\ u[i] <= bounds[i][2] * res}}
        Feasible == {x \in Box :
                       \A c \in 1..Len(constraints) : constraints[c][x].num = 0}
        Valued == {<<x, fun[x]>> : x \in Feasible}
        Best == {p \in Valued : \A o \in Valued : ~FLess(o[2], p[2])}
        Nearest == {p \in Best : \A o \in Best : Dist(p[1], x0) <= Dist(o[1], x0)}
    IN  IF Raised(fun[x0]) THEN {Raise(1)}
        ELSE IF \/ Feasible = {}
                \/ ~IsFinite(fun[x0])
                \/ \E p \in Valued : IsNaN(p[2])
        THEN {Return(x, 1) : x \in LastIterates(x0)}
        ELSE {Return((CHOOSE p \in Nearest :
                        \A o \in Nearest : LexLeq(p[1].num, o[1].num))[1], 1)}

(***************************************************************************)
(* The optimisations.                                                      *)
(***************************************************************************)
RECURSIVE MinOf(_, _)
\* er.min(): the least of v[1..k]
MinOf(v, k) ==
    IF k = 1 THEN v[1]
    ELSE IF v[k] < MinOf(v, k - 1) THEN v[k] ELSE MinOf(v, k - 1)

RECURSIVE MaxOf(_, _)
\* er.max(): the greatest of v[1..k]
MaxOf(v, k) ==
    IF k = 1 THEN v[1]
    ELSE IF v[k] > MaxOf(v, k - 1) THEN v[k] ELSE MaxOf(v, k - 1)

\* the solver model's denominator for a call of minimize_vol: fine enough
\* that every target within [er.min(), er.max()] is met exactly by a candidate
TargetGrid(target_return, er) ==
    LET span == MaxOf(er, Len(er)) - MinOf(er, Len(er))
    IN  2 * target_return.den * (IF span = 0 THEN 1 ELSE span)

\* the solver model's denominator for a call of msr
SharpeGrid == 2 * Resolution

\* np.repeat(1/n, n)
init_guess(n) == [num |-> [i \in 1..n |-> 1], den |-> n]

\* ((0.0, 1.0),) * n
unit_bounds(n) == [i \in 1..n |-> <<0, 1>>]

\* A variant that constrains nothing.
weight_sum_free(n) == [weights \in Arrays(n) |-> Rat(0, 1)]

\* lambda weights: np.sum(weights) - 1
weight_sum(n) == [weights \in Arrays(n) |-> RSub(NpSum(weights), Rat(1, 1))]

\* A variant that asks for the return of er.min(), whatever the target.
target_return_least(target_return, er) ==
    [weights \in Arrays(Len(er)) |->
       RSub(Rat(MinOf(er, Len(er)), 1), portfolio_return(weights, er))]

\* A variant with the difference the other way, halved: zero where the return
\* is twice the target.
target_return_double(target_return, er) ==
    [weights \in Arrays(Len(er)) |->
       RSub(portfolio_return(weights, er), RMul(Rat(2, 1), target_return))]

\* lambda weights, er: target_return - portfolio_return(weights, er)
target_return_equal(target_return, er) ==
    [weights \in Arrays(Len(er)) |->
       RSub(target_return, portfolio_return(weights, er))]

\* A variant whose constraint reads a target shared by the invocations of a
\* sweep (the one of the invocation that ended last), not its own.
minimize_vol_shared(target_return, er, cov) ==
    LET n == Len(er)
        shared == IF par # None /\ par.last # 0 THEN par.target_rs[par.last]
                  ELSE target_return
    IN  minimize([weights \in Arrays(n) |-> portfolio_vol(weights, cov)],
                 init_guess(n), unit_bounds(n),
                 <<weight_sum(n), target_return_equal(shared, er)>>,
                 TargetGrid(target_return, er))

\* the weights minimising the volatility at a target return: the set of the
\* ways the call can end
minimize_vol(target_return, er, cov) ==
    LET n == Len(er)
    IN  minimize([weights \in Arrays(n) |-> portfolio_vol(weights, cov)],
                 init_guess(n), unit_bounds(n),
                 <<weight_sum(n), target_return_equal(target_return, er)>>,
                 TargetGrid(target_return, er))

\* A variant that returns the Sharpe ratio itself.
sharpe_ratio_plain(weights, riskfree_rate, er, cov) ==
    LET r == portfolio_return(weights, er)
        vol == portfolio_vol(weights, cov)
    IN  IF Raised(r) \/ Raised(vol) THEN ValueError
        ELSE NegQuotient(RSub(riskfree_rate, r), vol)

\* the negative of the Sharpe ratio of a portfolio
neg_sharpe_ratio(weights, riskfree_rate, er, cov) ==
    LET r == portfolio_return(weights, er)
        vol == portfolio_vol(weights, cov)
    IN  IF Raised(r) \/ Raised(vol) THEN ValueError
        ELSE NegQuotient(RSub(r, riskfree_rate), vol)

\* the weights of the maximum Sharpe ratio portfolio: the set of the ways the
\* call can end
msr(riskfree_rate, er, cov) ==
    LET n == Len(er)
    IN  minimize([weights \in Arrays(n) |->
                    neg_sharpe_ratio(weights, riskfree_rate, er, cov)],
                 init_guess(n), unit_bounds(n), <<weight_sum(n)>>, SharpeGrid)

\* A variant that passes the risk-free rate 1, the expected return of every
\* asset: every Sharpe ratio is then 0.
gmv_rate_one(cov) ==
    LET n == Len(cov)
    IN  msr(Rat(1, 1), [i \in 1..n |-> 1], cov)

\* the weights of the global minimum volatility portfolio
gmv(cov) ==
    LET n == Len(cov)
    IN  msr(Rat(0, 1), [i \in 1..n |-> 1], cov)

\* A variant without the endpoint: num samples start + i * (stop - start) / num.
linspace_open(start, stop, num) ==
    [i \in 1..num |-> Rat(start * num + (i - 1) * (stop - start), num)]

\* np.linspace(start, stop, num) on integers start, stop, as rationals: num
\* samples start + i * (stop - start) / (num - 1); the one sample of num = 1 is
\* start
linspace(start, stop, num) ==
    IF num = 1 THEN <<Rat(start, 1)>>
    ELSE [i \in 1..num |->
            Rat(start * (num - 1) + (i - 1) * (stop - start), num - 1)]

RECURSIVE Comprehension(_, _, _, _)
\* [minimize_vol(target_return, er, cov) for target_return in target_rs[1..k]]:
\* the set of the ways it can end, the first call that raises ending it
Comprehension(target_rs, k, er, cov) ==
    IF k = 0 THEN {Return(<<>>, 0)}
    ELSE LET before == Comprehension(target_rs, k - 1, er, cov)
             call == minimize_vol(target_rs[k], er, cov)
         IN  IF \E b \in before : b.raised THEN before
             ELSE IF \E c \in call : c.raised THEN {Raise(k)}
             ELSE {Return(Append(b.x, c.x), k) : b \in before, c \in call}

\* the weights along the frontier, one array per target return
optimal_weights(n_points, er, cov) ==
    LET target_rs == linspace(MinOf(er, Len(er)), MaxOf(er, Len(er)), n_points)
    IN  Comprehension(target_rs, n_points, er, cov)

(***************************************************************************)
(* drawdown on a return series of rationals.  A column entry is a rational *)
(* or NaN (0/0, the quotient by a peak of 0).                              *)
(***************************************************************************)
Num(v) == [nan |-> FALSE, val |-> v]

NotANumber == [nan |-> TRUE, val |-> Rat(0, 1)]

RECURSIVE cumprod(_, _)
\* (1 + return_series).cumprod() at index i
cumprod(return_series, i) ==
    IF i = 0 THEN Rat(1, 1)
    ELSE RMul(cumprod(return_series, i - 1),
              Rat(return_series[i].den + return_series[i].num,
                  return_series[i].den))

RECURSIVE cummin(_, _)
\* the running minimum of a column: a variant of cummax
cummin(column, i) ==
    IF i = 1 THEN column[1]
    ELSE IF RLess(column[i], cummin(column, i - 1)) THEN column[i]
    ELSE cummin(column, i - 1)

RECURSIVE cummax(_, _)
\* wealth_index.cummax() at index i
cummax(column, i) ==
    IF i = 1 THEN column[1]
    ELSE IF RLess(cummax(column, i - 1), column[i]) THEN column[i]
    ELSE cummax(column, i - 1)

\* the three columns of the frame drawdown returns
drawdown(return_series) ==
    LET idx == 1..Len(return_series)
        wealth_index == [i \in idx |->
                           RMul(Rat(1000, 1), cumprod(return_series, i))]
        cumulative_peaks == [i \in idx |-> cummax(wealth_index, i)]
    IN  [Wealth |-> wealth_index,
         Peaks |-> cumulative_peaks,
         Drawdown |-> [i \in idx |->
             IF cumulative_peaks[i].num = 0
             THEN (IF wealth_index[i].num = 0 THEN NotANumber
                   ELSE Num(Rat(Sign(wealth_index[i].num), 0)))
             ELSE Num(Rat(RSub(wealth_index[i], cumulative_peaks[i]).num
                            * cumulative_peaks[i].den
                            * Sign(cumulative_peaks[i].num),
                          RSub(wealth_index[i], cumulative_peaks[i]).den
                            * Abs(cumulative_peaks[i].num)))]]

(***************************************************************************)
(* The inputs.                                                             *)
(***************************************************************************)
RECURSIVE Det(_)
\* the determinant of a square matrix, along its first row
Det(M) ==
    IF Len(M) = 1 THEN M[1][1]
    ELSE LET n == Len(M)
             Drop(j) == [r \in 1..(n - 1) |->
                           [c \in 1..(n - 1) |->
                              M[r + 1][IF c < j THEN c ELSE c + 1]]]
             Term(j) == (IF j % 2 = 1 THEN 1 ELSE -1) * M[1][j] * Det(Drop(j))
         IN  SumTo([j \in 1..n |-> Term(j)], n)

\* the principal submatrix of M on the indices S
Principal(M, S) ==
    LET k == Cardinality(S)
        pick == CHOOSE f \in [1..k -> S] :
                    \A a, b \in 1..k : a < b => f[a] < f[b]
    IN  [r \in 1..k |-> [c \in 1..k |-> M[pick[r]][pick[c]]]]

\* a covariance matrix: symmetric and positive semidefinite (every principal
\* minor is >= 0)
IsCovariance(M) ==
    /\ \A i, j \in 1..Len(M) : M[i][j] = M[j][i]
    /\ \A S \in SUBSET (1..Len(M)) : S # {} => Det(Principal(M, S)) >= 0

\* the symmetric n x n matrices of any variances and one common covariance:
\* for n = 2, every symmetric matrix over the variances and covariances
Symmetric(n) ==
    {[i \in 1..n |-> [j \in 1..n |-> IF i = j THEN d[i] ELSE c]] :
        d \in [1..n -> Variances], c \in Covariances}

\* an r x c matrix of ones on the diagonal, a vector -1, 0, 1, ...
Eye(r, c) == [i \in 1..r |-> [j \in 1..c |-> IF i = j THEN 1 ELSE 0]]

Ramp(l) == [i \in 1..l |-> i - 2]

\* the targets of the direct calls of minimize_vol: the multiples of
\* 1/TargetDen from er.min() to er.max(), and the next one on either side
Targets(er) ==
    {Rat(k, TargetDen) : k \in (MinOf(er, Len(er)) * TargetDen - 1)
                              ..(MaxOf(er, Len(er)) * TargetDen + 1)}

\* the arrays portfolio_vol is applied to in SpecVol
VolWeights(n) ==
    {[num |-> v, den |-> Resolution] : v \in [1..n -> (-Resolution)..Resolution]}

\* the returns drawdown is applied to: the halves from -3/2 to 1
Halves == {Rat(k, 2) : k \in -3..2}

RECURSIVE SeriesOf(_)
SeriesOf(len) ==
    IF len = 0 THEN {<<>>}
    ELSE {Append(s, r) : s \in SeriesOf(len - 1), r \in Halves}

(***************************************************************************)
(* The state: the inputs in_er and in_cov of the calls, out the last       *)
(* completed call, par a sweep whose caller runs the minimize_vol          *)
(* invocations in an order of its choice, rs a return series and dd the    *)
(* frame drawdown made of it.                                              *)
(***************************************************************************)
Call(fn, arg, end) == [fn |-> fn, arg |-> arg, end |-> end]

\* the expected returns of n assets: any of two, ascending ones of more
ReturnVectors(n) ==
    {e \in [1..n -> Returns] : n > 2 => \A i \in 1..(n - 1) : e[i] <= e[i + 1]}

Init ==
    /\ \E n \in Sizes :
         /\ in_er \in ReturnVectors(n)
         /\ in_cov \in {M \in Symmetric(n) : IsCovariance(M)}
    /\ out = None
    /\ par = None
    /\ rs = <<>>
    /\ dd = None

\* inputs of every shape, conforming or not
InitShapes ==
    /\ \E l, r, c \in 1..MaxDim : in_er = Ramp(l) /\ in_cov = Eye(r, c)
    /\ out = None
    /\ par = None
    /\ rs = <<>>
    /\ dd = None

\* symmetric matrices, covariance matrices or not
InitVol ==
    /\ in_er = <<0, 0>>
    /\ in_cov \in Symmetric(2)
    /\ out = None
    /\ par = None
    /\ rs = <<>>
    /\ dd = None

InitDrawdown ==
    /\ in_er = <<>>
    /\ in_cov = <<>>
    /\ out = None
    /\ par = None
    /\ \E len \in 1..MaxLen : rs \in SeriesOf(len)
    /\ dd = None

MinimizeVol ==
    /\ par = None
    /\ out = None
    /\ \E t \in Targets(in_er) : \E end \in minimize_vol(t, in_er, in_cov) :
         out' = Call("minimize_vol", t, end)
    /\ UNCHANGED <<in_er, in_cov, par, rs, dd>>

Msr ==
    /\ par = None
    /\ out = None
    /\ \E rf \in RiskFree : \E end \in msr(Rat(rf, 1), in_er, in_cov) :
         out' = Call("msr", Rat(rf, 1), end)
    /\ UNCHANGED <<in_er, in_cov, par, rs, dd>>

Gmv ==
    /\ par = None
    /\ out = None
    /\ \E end \in gmv(in_cov) : out' = Call("gmv", 0, end)
    /\ UNCHANGED <<in_er, in_cov, par, rs, dd>>

OptimalWeights ==
    /\ par = None
    /\ out = None
    /\ \E n_points \in 0..MaxPoints :
         \E end \in optimal_weights(n_points, in_er, in_cov) :
           out' = Call("optimal_weights", n_points, end)
    /\ UNCHANGED <<in_er, in_cov, par, rs, dd>>

\* the caller computes the targets of a sweep, to run the invocations itself
ParStart ==
    /\ par = None
    /\ out = None
    /\ \E n_points \in 1..MaxPoints :
         par' = [n_points |-> n_points,
                 target_rs |-> linspace(MinOf(in_er, Len(in_er)),
                                        MaxOf(in_er, Len(in_er)), n_points),
                 results |-> [i \in 1..n_points |-> None],
                 last |-> 0,
                 er |-> in_er,
                 cov |-> in_cov]
    /\ UNCHANGED <<in_er, in_cov, out, rs, dd>>

\* one invocation of the sweep, whichever the caller runs next
ParInvoke ==
    /\ par # None
    /\ \E i \in 1..par.n_points :
         /\ par.results[i] = None
         /\ \E end \in minimize_vol(par.target_rs[i], in_er, in_cov) :
              par' = [par EXCEPT !.results[i] = end, !.last = i]
    /\ UNCHANGED <<in_er, in_cov, out, rs, dd>>

PortfolioVol ==
    /\ out = None
    /\ \E w \in VolWeights(Len(in_cov)) :
         out' = Call("portfolio_vol", w,
                     IF Raised(portfolio_vol(w, in_cov)) THEN Raise(0)
                     ELSE Return(portfolio_vol(w, in_cov), 0))
    /\ UNCHANGED <<in_er, in_cov, par, rs, dd>>

Drawdown ==
    /\ dd = None
    /\ dd' = drawdown(rs)
    /\ UNCHANGED <<in_er, in_cov, out, par, rs>>

Next == MinimizeVol \/ Msr \/ Gmv \/ OptimalWeights \/ ParStart \/ ParInvoke

Spec == Init /\ [][Next]_vars

NextCalls == MinimizeVol \/ Msr \/ Gmv \/ OptimalWeights

SpecShapes == InitShapes /\ [][NextCalls]_vars

SpecVol == InitVol /\ [][PortfolioVol]_vars

SpecDrawdown == InitDrawdown /\ [][Drawdown]_vars

(***************************************************************************)
(* What the claims speak of.                                               *)
(***************************************************************************)
MinEr == MinOf(in_er, Len(in_er))

MaxEr == MaxOf(in_er, Len(in_er))

\* a target return within [er.min(), er.max()]
InRange(t) == RLeq(Rat(MinEr, 1), t) /\ RLeq(t, Rat(MaxEr, 1))

\* n entries, each in [0, 1], summing to 1
IsWeightVector(w, n) ==
    /\ Len(w.num) = n
    /\ w.den > 0
    /\ \A i \in 1..n : 0 <= w.num[i] /\ w.num[i] <= w.den
    /\ SumTo(w.num, n) = w.den

\* the weight vectors of n assets with entries the multiples of 1/q
Simplex(n, q) ==
    {[num |-> v, den |-> q] : v \in {u \in [1..n -> 0..q] : SumTo(u, n) = q}}

\* all the weight on asset i
IsUnit(w, i) ==
    /\ w.den > 0
    /\ \A j \in 1..Len(w.num) : w.num[j] = (IF j = i THEN w.den ELSE 0)

SameWeights(v, w) ==
    /\ Len(v.num) = Len(w.num)
    /\ v.den > 0
    /\ w.den > 0
    /\ \A i \in 1..Len(v.num) : v.num[i] * w.den = w.num[i] * v.den

\* v has a lower volatility than w
LowerVol(v, w) == FLess(portfolio_vol(v, in_cov), portfolio_vol(w, in_cov))

IsPositiveDefinite(M) ==
    /\ \A i, j \in 1..Len(M) : M[i][j] = M[j][i]
    /\ \A S \in SUBSET (1..Len(M)) : S # {} => Det(Principal(M, S)) > 0

AllEqual(v) == \A i \in 1..Len(v) : v[i] = v[1]

Returned(fn) == out # None /\ out.fn = fn /\ ~out.end.raised

\* the inputs of a call of fn are malformed: the covariance matrix is not
\* square, or (but for gmv, which takes no returns) its side is not len(er)
Malformed(fn) ==
    \/ Len(in_cov) # Len(in_cov[1])
    \/ fn # "gmv" /\ Len(in_er) # Len(in_cov)

\* weights.T @ covmat @ weights, times weights.den^2
QuadraticForm(w) == VecVec(VecMat(w.num, in_cov), w.num)

(***************************************************************************)
(* C1: every call of minimize_vol, msr, gmv and optimal_weights with       *)
(* malformed inputs raises before the solver is entered, and returns no    *)
(* weights.  The code validates nothing: the error is numpy's, raised by   *)
(* the objective's first evaluation inside the solver, and a sweep of no   *)
(* points returns an empty list.                                           *)
(***************************************************************************)
C1_FailsBeforeSolver ==
    (out # None /\ Malformed(out.fn)) => (out.end.raised /\ out.end.calls = 0)

C3_MinimalAtTarget ==
    (Returned("minimize_vol") /\ InRange(out.arg)) =>
        LET w == out.end.x
        IN  /\ IsWeightVector(w, Len(in_er))
            /\ REq(portfolio_return(w, in_er), out.arg)
            /\ \A v \in Simplex(Len(in_er), w.den) :
                 REq(portfolio_return(v, in_er), out.arg) => ~LowerVol(v, w)

\* a target between the returns of three assets, met by several portfolios
C3_Witness ==
    /\ Returned("minimize_vol")
    /\ InRange(out.arg)
    /\ Len(in_er) = 3
    /\ in_er[1] < in_er[2] /\ in_er[2] < in_er[3]
    /\ \E v \in Simplex(3, out.end.x.den) :
         /\ REq(portfolio_return(v, in_er), out.arg)
         /\ LowerVol(out.end.x, v)

C6_BoundaryIsSingleAsset ==
    (/\ Returned("minimize_vol")
     /\ Len(in_er) = 2
     /\ REq(out.arg, Rat(MinEr, 1)) \/ REq(out.arg, Rat(MaxEr, 1)))
        => \E i \in 1..2 : /\ REq(Rat(in_er[i], 1), out.arg)
                           /\ IsUnit(out.end.x, i)

(***************************************************************************)
(* C6, amended: for any two assets of different expected returns.  (With   *)
(* equal returns both boundary targets are the one return, every weight    *)
(* vector meets it, and the result is the one of least volatility.)        *)
(***************************************************************************)
C6_BoundaryIsSingleAssetDistinct ==
    (/\ Returned("minimize_vol")
     /\ Len(in_er) = 2
     /\ in_er[1] # in_er[2]
     /\ REq(out.arg, Rat(MinEr, 1)) \/ REq(out.arg, Rat(MaxEr, 1)))
        => \E i \in 1..2 : /\ REq(Rat(in_er[i], 1), out.arg)
                           /\ IsUnit(out.end.x, i)

C6_Witness ==
    /\ Returned("minimize_vol")
    /\ Len(in_er) = 2
    /\ in_er[1] > in_er[2]
    /\ REq(out.arg, Rat(MaxEr, 1))
    /\ IsUnit(out.end.x, 1)
    /\ in_cov[1][1] > in_cov[2][2]

(***************************************************************************)
(* C7, as stated: for every n_points >= 1, optimal_weights returns         *)
(* n_points arrays, the i-th the result of minimize_vol at the i-th of     *)
(* n_points evenly spaced, ascending targets, the first er.min() and the   *)
(* last er.max().                                                          *)
(***************************************************************************)
SweepIsEven(n_points) ==
    LET target_rs == linspace(MinEr, MaxEr, n_points)
    IN  /\ Len(out.end.x) = n_points
        /\ Len(target_rs) = n_points
        /\ REq(target_rs[1], Rat(MinEr, 1))
        /\ REq(target_rs[n_points], Rat(MaxEr, 1))
        /\ \A i \in 1..(n_points - 1) :
             /\ RLeq(target_rs[i], target_rs[i + 1])
             /\ REq(RSub(target_rs[i + 1], target_rs[i]),
                    Rat(MaxEr - MinEr, n_points - 1))
        /\ \A i \in 1..n_points :
             Return(out.end.x[i], 1) \in minimize_vol(target_rs[i], in_er, in_cov)

C7_SweepSpansFromOnePoint ==
    (Returned("optimal_weights") /\ out.arg >= 1) => SweepIsEven(out.arg)

(***************************************************************************)
(* C7, amended: for every n_points >= 2.  (The one target of n_points = 1  *)
(* is er.min(), and n_points = 0 gives the empty list.)                    *)
(***************************************************************************)
C7_SweepSpansFromTwoPoints ==
    /\ (Returned("optimal_weights") /\ out.arg >= 2) => SweepIsEven(out.arg)
    /\ (Returned("optimal_weights") /\ out.arg = 1) =>
          /\ Len(out.end.x) = 1
          /\ Return(out.end.x[1], 1) \in minimize_vol(Rat(MinEr, 1), in_er, in_cov)
    /\ (Returned("optimal_weights") /\ out.arg = 0) => out.end.x = <<>>

C7_Witness ==
    /\ Returned("optimal_weights")
    /\ out.arg >= 3
    /\ MinEr < MaxEr
    /\ \A i \in 1..(out.arg - 1) : ~SameWeights(out.end.x[i], out.end.x[i + 1])

(***************************************************************************)
(* C8, as stated: portfolio_vol raises where the quadratic form            *)
(* weights.T @ covmat @ weights is negative, and a value it returns is     *)
(* >= 0.                                                                   *)
(***************************************************************************)
C8_NegativeFormRaises ==
    (out # None /\ out.fn = "portfolio_vol") =>
        /\ QuadraticForm(out.arg) < 0 => out.end.raised
        /\ ~out.end.raised => FNonNeg(out.end.x)

(***************************************************************************)
(* C8, amended: portfolio_vol returns NaN (it does not raise) where the    *)
(* quadratic form is negative; any other value it returns is >= 0, the     *)
(* root of the quadratic form.                                             *)
(***************************************************************************)
C8_NegativeFormIsNaN ==
    (out # None /\ out.fn = "portfolio_vol") =>
        /\ ~out.end.raised
        /\ QuadraticForm(out.arg) < 0 <=> IsNaN(out.end.x)
        /\ ~IsNaN(out.end.x) =>
             /\ FNonNeg(out.end.x)
             /\ IsFinite(out.end.x)
             /\ REq(out.end.x.rad,
                    Rat(QuadraticForm(out.arg), out.arg.den * out.arg.den))

C8_Witness ==
    /\ out # None
    /\ out.fn = "portfolio_vol"
    /\ QuadraticForm(out.arg) < 0
    /\ \A i \in 1..Len(out.arg.num) : out.arg.num[i] > 0

AllAboveMinusOne == \A i \in 1..Len(rs) : RLess(Rat(-1, 1), rs[i])

C10_PeaksAndDrawdown ==
    (dd # None /\ AllAboveMinusOne) =>
        \A i \in 1..Len(rs) :
            /\ \E j \in 1..i : REq(dd.Peaks[i], dd.Wealth[j])
            /\ \A j \in 1..i : RLeq(dd.Wealth[j], dd.Peaks[i])
            /\ i > 1 => RLeq(dd.Peaks[i - 1], dd.Peaks[i])
            /\ ~dd.Drawdown[i].nan
            /\ dd.Drawdown[i].val.den > 0
            /\ RLess(Rat(-1, 1), dd.Drawdown[i].val)
            /\ RLeq(dd.Drawdown[i].val, Rat(0, 1))
            /\ dd.Drawdown[i].val.num = 0 <=> REq(dd.Wealth[i], dd.Peaks[i])

\* a series that falls below its peak and later passes it
C10_Witness ==
    /\ dd # None
    /\ AllAboveMinusOne
    /\ Len(rs) >= 3
    /\ \E i \in 2..(Len(rs) - 1) :
         /\ dd.Drawdown[i].val.num < 0
         /\ RLess(dd.Peaks[i], dd.Peaks[i + 1])

====
